---- MODULE Spec2Model ----
(***************************************************************************)
(* Model of the caelestia lid monitor (subcommands/lidmonitor.py) and of   *)
(* the launcher's auto-start (subcommands/shell.py).                       *)
(*                                                                         *)
(* Every operating-system process running one of the program's commands    *)
(* is a pid with a command, a program position (pc) and its local          *)
(* variables.  The two files the processes share are the lid-state file    *)
(* and the PID file.  Text is a sequence of one-character strings, so that *)
(* str(), int() and the lid-state parser are computed, not assumed.        *)
(***************************************************************************)
EXTENDS Integers, Sequences, FiniteSets, TLC

(***************************************************************************)
(* Bounds of the model.                                                    *)
(***************************************************************************)
\* pids the program's own processes may get (fork and spawn fail beyond)
MaxProcs == 4
\* commands the users and the session issue during one run: a command may
\* need a second pid, for the child it forks
MaxCmds == MaxProcs \div 2

(***************************************************************************)
(* Program constants.                                                      *)
(***************************************************************************)
\* for _ in range(10) in stop_daemon
ProbeLimit == 10
\* the five lock mechanisms of trigger_lock
NumMechanisms == 5

Pids == 1 .. MaxProcs
\* a live process of another user (such as init): signalling it is refused
ForeignPid == MaxProcs + 1
\* a pid no process has
DeadPid == MaxProcs + 2

(***************************************************************************)
(* Text.                                                                   *)
(***************************************************************************)
Whitespace == {" ", "\n", "\t", "\r"}

Digits == <<"0", "1", "2", "3", "4", "5", "6", "7", "8", "9">>

\* the positions of s that hold no whitespace
Kept(s) == {i \in 1 .. Len(s) : s[i] \notin Whitespace}

\* s from its first character that is not whitespace
LStrip(s) ==
  IF Kept(s) = {} THEN <<>>
  ELSE SubSeq(s, CHOOSE i \in Kept(s) : \A j \in Kept(s) : i <= j, Len(s))

\* s up to its last character that is not whitespace
RStrip(s) ==
  IF Kept(s) = {} THEN <<>>
  ELSE SubSeq(s, 1, CHOOSE i \in Kept(s) : \A j \in Kept(s) : i >= j)

\* str.strip()
Strip(s) == RStrip(LStrip(s))

\* index of the first occurrence of character c in s from position i on, 0
\* when there is none
IndexOf(s, c, i) ==
  LET found == {j \in i .. Len(s) : s[j] = c}
  IN  IF found = {} THEN 0 ELSE CHOOSE j \in found : \A k \in found : j <= k

\* str.split(c): the pieces between the occurrences of c (always at least one)
RECURSIVE Split(_, _)
Split(s, c) ==
  LET i == IndexOf(s, c, 1)
  IN  IF i = 0 THEN <<s>>
      ELSE <<SubSeq(s, 1, i - 1)>> \o Split(SubSeq(s, i + 1, Len(s)), c)

\* sub in s
Contains(s, sub) ==
  \E i \in 1 .. (Len(s) - Len(sub) + 1) : SubSeq(s, i, i + Len(sub) - 1) = sub

\* str(n) for n >= 0
RECURSIVE Str(_)
Str(n) ==
  IF n < 10 THEN <<Digits[n + 1]>> ELSE Str(n \div 10) \o <<Digits[(n % 10) + 1]>>

DigitValue(c) == CHOOSE d \in 0 .. 9 : Digits[d + 1] = c

IsDigit(c) == \E d \in 0 .. 9 : Digits[d + 1] = c

RECURSIVE DigitsValue(_, _)
DigitsValue(s, acc) ==
  IF s = <<>> THEN acc ELSE DigitsValue(Tail(s), 10 * acc + DigitValue(Head(s)))

\* int(text.strip()) of a PID file's text: the number, or ValueError.  The
\* texts of the model are decimal digits or not a number at all.
ValueError == -1
ParsePid(text) ==
  LET t == Strip(text)
  IN  IF t # <<>> /\ \A i \in 1 .. Len(t) : IsDigit(t[i])
        THEN DigitsValue(t, 0)
        ELSE ValueError

(***************************************************************************)
(* The lid-state file.                                                     *)
(***************************************************************************)
StateKey == <<"s", "t", "a", "t", "e", ":">>
Open == <<"o", "p", "e", "n">>
Closed == <<"c", "l", "o", "s", "e", "d">>
Unknown == <<"u", "n", "k", "n", "o", "w", "n">>
Pad == <<" ", " ", " ", " ", " ", " ">>

\* what /proc/acpi/button/lid/LID/state holds
OpenText == StateKey \o Pad \o Open \o <<"\n">>
ClosedText == StateKey \o Pad \o Closed \o <<"\n">>
\* a file without a state line
BlankText == <<"\n">>

LidTexts == {OpenText, ClosedText, BlankText}

\* lines a lid-state file could hold: the two of the kernel, one without a
\* state, one with no value, one with a second colon after the value, one
\* with a colon before the key, one indented and ending in a carriage return
ReaderLines ==
  { StateKey \o Pad \o Open,
    StateKey \o Pad \o Closed,
    <<"L", "I", "D">>,
    StateKey,
    StateKey \o Open \o <<":", "x">>,
    <<"a", ":">> \o StateKey \o Closed,
    <<" ", "\t">> \o StateKey \o <<"\t">> \o Closed \o <<" ", "\r">> }

\* contents of one line and of two lines, each line ended by a newline
ReaderTexts ==
  LidTexts
    \cup {a \o <<"\n">> : a \in ReaderLines}
    \cup {a \o <<"\n">> \o b \o <<"\n">> :
            a \in {<<"L", "I", "D">>, StateKey \o Pad \o Open},
            b \in ReaderLines}

NoFile == [exists |-> FALSE, text |-> <<>>]
File(t) == [exists |-> TRUE, text |-> t]

\* get_lid_state taking the last line with a state instead of the first
ParseLidState_LastLine(text) ==
  LET lines == Split(Strip(text), "\n")
      state_line == SelectSeq(lines, LAMBDA line : Contains(line, StateKey))
  IN  IF state_line # <<>>
        THEN Strip(Split(state_line[Len(state_line)], ":")[2])
        ELSE Unknown

\* get_lid_state on an existing file
ParseLidState(text) ==
  LET lines == Split(Strip(text), "\n")
      state_line == SelectSeq(lines, LAMBDA line : Contains(line, StateKey))
  IN  IF state_line # <<>>
        THEN Strip(Split(state_line[1], ":")[2])
        ELSE Unknown

\* get_lid_state for each text the file can hold
get_lid_state == [t \in ReaderTexts |-> ParseLidState(t)]

(***************************************************************************)
(* State.                                                                  *)
(***************************************************************************)
VARIABLES
  lid_file,   \* /proc/acpi/button/lid/LID/state: [exists, text]
  pid_file,   \* /tmp/caelestia_lid_monitor.pid: [exists, text]
  proc,       \* pid -> the process: its command, position and local variables
  nextPid,    \* the pid the next fork or spawn gets
  cmds        \* commands issued so far

vars == <<lid_file, pid_file, proc, nextPid, cmds>>

\* Python's None, which no text equals
None == <<"None">>

\* A process that does not exist (yet, or any more) has no memory: all a
\* process leaves behind is its command and the last line it printed (or the
\* error that ended it).
NoProc ==
  [cmd |-> "none",            \* the command the process runs
   pc |-> "unused",           \* its position in the code
   out |-> "",                \* the last line printed, or the error that ended it
   ret |-> "none",            \* the call site cleanup() returns to
   is_running |-> "none",     \* what is_daemon_running returned
   pid |-> 0,                 \* the local variable pid, read from the PID file
   tries |-> 0,               \* iterations of stop_daemon's wait loop so far
   sent |-> <<>>,             \* the signals the process has sent
   running |-> FALSE,         \* self.running
   shutdown |-> FALSE,        \* signal_handler has run ("Received shutdown signal")
   last_state |-> None,       \* monitor_lid's last_state
   before |-> None,           \* last_state as the current tick found it
   current_state |-> None,    \* monitor_lid's current_state in the current tick
   mech |-> 0,                \* the lock mechanism trigger_lock tries next
   attempts |-> <<>>,         \* the tick's trigger_lock call: [m, o] per mechanism run
   locked |-> "none",         \* what the tick's trigger_lock call returned
   calls |-> 0]               \* trigger_lock calls of the current tick

\* PID-file texts left behind by earlier runs: not a number, the pid of a
\* process that is gone, the pid of a live process of another user
Garbage == <<"x">>
StaleText == Str(DeadPid) \o <<"\n">>
ForeignText == Str(ForeignPid)

Commands == {"daemon", "stop", "status", "monitor", "launcher"}

\* Command.run: where each command starts
Entry(k) ==
  CASE k = "daemon" -> "idr_exists"
    [] k = "stop" -> "stop_exists"
    [] k = "status" -> "idr_exists"
    [] k = "monitor" -> "mon_start"
    [] k = "launcher" -> "auto_lid"

Ended == {"exit", "crashed", "killed"}

Alive(p) == p \in Pids /\ proc[p].pc \notin (Ended \cup {"unused"})

\* process q ends: it returns from run ("exit"), dies of an unhandled
\* exception ("crashed") or of a signal ("killed")
End(q, how, msg) == [NoProc EXCEPT !.cmd = q.cmd, !.pc = how, !.out = msg]

\* os.kill(t, 0) and the error checks of every os.kill
Probe(t) ==
  IF t = ForeignPid THEN "EPERM"
  ELSE IF Alive(t) THEN "ok"
  ELSE "ESRCH"

\* the process is between signal.signal(...) of monitor_lid and its return
HasHandler(q) ==
  \/ q.pc \in {"loop", "tick", "lock"}
  \/ q.pc \in {"cleanup", "unlink"} /\ q.ret = "finally"

\* the process is inside the while loop of monitor_lid
InLoop(p) == proc[p].pc \in {"loop", "tick", "lock"}

\* a handler that logs and leaves self.running alone
SignalHandler_KeepsRunning(q) ==
  [q EXCEPT !.shutdown = TRUE, !.out = "Received shutdown signal"]

\* signal_handler: log, self.running = False
SignalHandler(q) ==
  [q EXCEPT !.running = FALSE, !.shutdown = TRUE, !.out = "Received shutdown signal"]

\* process q once signal sig has reached it: SIGKILL, and SIGTERM or SIGINT
\* before the handlers are set, end it on the spot
Signalled(q, sig) ==
  IF sig = "KILL" \/ ~HasHandler(q) THEN End(q, "killed", sig) ELSE SignalHandler(q)

\* the files an earlier session may have left
InitFiles ==
  /\ lid_file \in {NoFile, File(OpenText), File(ClosedText)}
  /\ pid_file \in {NoFile, File(Garbage), File(StaleText), File(ForeignText)}

(***************************************************************************)
(* The environment.                                                        *)
(***************************************************************************)
\* a user, the session or the shell launcher runs a command of the program
Launch(k) ==
  /\ cmds < MaxCmds
  /\ nextPid <= MaxProcs
  /\ proc' = [proc EXCEPT ![nextPid] = [NoProc EXCEPT !.cmd = k, !.pc = Entry(k)]]
  /\ nextPid' = nextPid + 1
  /\ cmds' = cmds + 1
  /\ UNCHANGED <<lid_file, pid_file>>

\* the lid is moved, or the ACPI node goes away or comes back
LidChange(f) ==
  /\ f # lid_file
  /\ lid_file' = f
  /\ UNCHANGED <<pid_file, proc, nextPid, cmds>>

\* Ctrl-C or a session shutdown reaches a process of the program
EnvSignal(t, sig) ==
  /\ Alive(t)
  /\ proc' = [proc EXCEPT ![t] = Signalled(@, sig)]
  /\ UNCHANGED <<lid_file, pid_file, nextPid, cmds>>

(***************************************************************************)
(* Command.cleanup, called from is_daemon_running, stop_daemon and the     *)
(* finally block of monitor_lid.                                           *)
(***************************************************************************)
\* is_daemon_running returning False whatever it found
AfterIsRunning_AlwaysFalse(q, r) ==
  [q EXCEPT !.is_running = "False",
            !.pc = IF q.cmd = "daemon" THEN "start_if" ELSE "status_if"]

\* is_daemon_running returns r to its caller: if self.is_daemon_running(): of
\* start_daemon or of show_status
AfterIsRunning(q, r) ==
  [q EXCEPT !.is_running = IF r THEN "True" ELSE "False",
            !.pc = IF q.cmd = "daemon" THEN "start_if" ELSE "status_if"]

\* the caller of cleanup once it has returned
AfterCleanup(q) ==
  CASE q.ret = "idr" -> AfterIsRunning(q, FALSE)
    [] q.ret = "stop" -> End(q, "exit", "stopped")
    [] q.ret = "stop_except" -> End(q, "exit", q.out)
    [] q.ret = "finally" -> End(q, "exit", q.out)

\* if self.pid_file.exists():
CleanupExists(p) ==
  /\ proc[p].pc = "cleanup"
  /\ proc' = [proc EXCEPT ![p] =
                IF pid_file.exists THEN [@ EXCEPT !.pc = "unlink"] ELSE AfterCleanup(@)]
  /\ UNCHANGED <<lid_file, pid_file, nextPid, cmds>>

\* self.pid_file.unlink(): FileNotFoundError, which no caller catches, when
\* the file has gone since the check
CleanupUnlink(p) ==
  /\ proc[p].pc = "unlink"
  /\ IF pid_file.exists
       THEN /\ pid_file' = NoFile
            /\ proc' = [proc EXCEPT ![p] = AfterCleanup(@)]
       ELSE /\ proc' = [proc EXCEPT ![p] = End(@, "crashed", "FileNotFoundError")]
            /\ UNCHANGED pid_file
  /\ UNCHANGED <<lid_file, nextPid, cmds>>

(***************************************************************************)
(* Command.is_daemon_running, called from start_daemon and show_status.    *)
(***************************************************************************)
\* if not self.pid_file.exists(): return False
IsRunningExists(p) ==
  /\ proc[p].pc = "idr_exists"
  /\ proc' = [proc EXCEPT ![p] =
                IF pid_file.exists THEN [@ EXCEPT !.pc = "idr_read"]
                ELSE AfterIsRunning(@, FALSE)]
  /\ UNCHANGED <<lid_file, pid_file, nextPid, cmds>>

\* ProcessLookupError caught without the cleanup
AfterProbe_NoCleanup(q, result) ==
  CASE result = "ok" -> AfterIsRunning(q, TRUE)
    [] result = "ESRCH" -> AfterIsRunning(q, FALSE)
    [] result = "EPERM" -> End(q, "crashed", "PermissionError")

\* is_daemon_running after os.kill(pid, 0): return True; ProcessLookupError is
\* caught (cleanup, return False); PermissionError is not
AfterProbe(q, result) ==
  CASE result = "ok" -> AfterIsRunning(q, TRUE)
    [] result = "ESRCH" -> [q EXCEPT !.pc = "cleanup", !.ret = "idr"]
    [] result = "EPERM" -> End(q, "crashed", "PermissionError")

\* pid = int(self.pid_file.read_text().strip()): ValueError is caught
\* (cleanup, return False), FileNotFoundError is not
IsRunningRead(p) ==
  /\ proc[p].pc = "idr_read"
  /\ proc' = [proc EXCEPT ![p] =
                IF ~pid_file.exists THEN End(@, "crashed", "FileNotFoundError")
                ELSE IF ParsePid(pid_file.text) = ValueError
                  THEN [@ EXCEPT !.pc = "cleanup", !.ret = "idr"]
                  ELSE [@ EXCEPT !.pc = "idr_probe", !.pid = ParsePid(pid_file.text)]]
  /\ UNCHANGED <<lid_file, pid_file, nextPid, cmds>>

\* os.kill(pid, 0)
IsRunningProbe(p) ==
  /\ proc[p].pc = "idr_probe"
  /\ proc' = [proc EXCEPT ![p] = AfterProbe(@, Probe(@.pid))]
  /\ UNCHANGED <<lid_file, pid_file, nextPid, cmds>>

(***************************************************************************)
(* Command.start_daemon after the check.                                   *)
(***************************************************************************)
\* if self.is_daemon_running(): print, return
StartIf(p) ==
  /\ proc[p].pc = "start_if"
  /\ proc' = [proc EXCEPT ![p] =
                IF @.is_running = "True" THEN End(@, "exit", "already running")
                ELSE [@ EXCEPT !.pc = "fork"]]
  /\ UNCHANGED <<lid_file, pid_file, nextPid, cmds>>

\* pid = os.fork(): the parent prints and returns, the child goes on; or
\* OSError, printed
Fork(p) ==
  /\ proc[p].pc = "fork"
  /\ \/ /\ nextPid <= MaxProcs
        /\ proc' = [proc EXCEPT
                      ![p] = End(@, "exit", "started"),
                      ![nextPid] = [NoProc EXCEPT !.cmd = "child", !.pc = "child_write"]]
        /\ nextPid' = nextPid + 1
     \/ /\ proc' = [proc EXCEPT ![p] = End(@, "exit", "Failed to fork")]
        /\ UNCHANGED nextPid
  /\ UNCHANGED <<lid_file, pid_file, cmds>>

\* the child: setsid, chdir, umask, self.pid_file.write_text(str(os.getpid())),
\* then monitor_lid
ChildWritePid(p) ==
  /\ proc[p].pc = "child_write"
  /\ pid_file' = File(Str(p))
  /\ proc' = [proc EXCEPT ![p].pc = "mon_start"]
  /\ UNCHANGED <<lid_file, nextPid, cmds>>

(***************************************************************************)
(* Command.stop_daemon.                                                    *)
(***************************************************************************)
\* stop_daemon without the check of the PID file
AfterStopExists_NoCheck(q, exists) == [q EXCEPT !.pc = "stop_read"]

\* if not self.pid_file.exists(): print, return
AfterStopExists(q, exists) ==
  IF exists THEN [q EXCEPT !.pc = "stop_read"]
  ELSE End(q, "exit", "No lid monitor daemon found")

StopExists(p) ==
  /\ proc[p].pc = "stop_exists"
  /\ proc' = [proc EXCEPT ![p] = AfterStopExists(@, pid_file.exists)]
  /\ UNCHANGED <<lid_file, pid_file, nextPid, cmds>>

\* the except clause without self.cleanup()
StopExcept_NoCleanup(q) == End(q, "exit", "Failed to stop daemon")

\* except (ValueError, ProcessLookupError, PermissionError): print, cleanup
StopExcept(q) ==
  [q EXCEPT !.pc = "cleanup", !.ret = "stop_except", !.out = "Failed to stop daemon"]

\* pid = int(self.pid_file.read_text().strip()): FileNotFoundError is not
\* among the errors stop_daemon catches
StopRead(p) ==
  /\ proc[p].pc = "stop_read"
  /\ proc' = [proc EXCEPT ![p] =
                IF ~pid_file.exists THEN End(@, "crashed", "FileNotFoundError")
                ELSE IF ParsePid(pid_file.text) = ValueError THEN StopExcept(@)
                ELSE [@ EXCEPT !.pc = "stop_term", !.pid = ParsePid(pid_file.text)]]
  /\ UNCHANGED <<lid_file, pid_file, nextPid, cmds>>

\* os.kill(pid, signal.SIGTERM)
StopTerm(p) ==
  /\ proc[p].pc = "stop_term"
  /\ proc' =
       IF Probe(proc[p].pid) = "ok"
         THEN [proc EXCEPT
                 ![p] = [@ EXCEPT !.pc = "stop_probe", !.sent = Append(@, "TERM")],
                 ![proc[p].pid] = Signalled(@, "TERM")]
         ELSE [proc EXCEPT ![p] = StopExcept(@)]
  /\ UNCHANGED <<lid_file, pid_file, nextPid, cmds>>

\* the wait loop falling into the else clause after a break as well
AfterWaitProbe_KillAfterBreak(q, result) ==
  CASE result = "ok" ->
         [q EXCEPT !.tries = @ + 1,
                   !.pc = IF q.tries + 1 = ProbeLimit THEN "stop_kill" ELSE "stop_probe"]
    [] result = "ESRCH" -> [q EXCEPT !.pc = "stop_kill"]
    [] result = "EPERM" -> StopExcept(q)

\* the wait loop after one more os.kill(pid, 0): sleep and go round, leave
\* through the else clause after the last round, or break
AfterWaitProbe(q, result) ==
  CASE result = "ok" ->
         [q EXCEPT !.tries = @ + 1,
                   !.pc = IF q.tries + 1 = ProbeLimit THEN "stop_kill" ELSE "stop_probe"]
    [] result = "ESRCH" -> [q EXCEPT !.pc = "cleanup", !.ret = "stop"]
    [] result = "EPERM" -> StopExcept(q)

\* one iteration of for _ in range(10)
StopProbe(p) ==
  /\ proc[p].pc = "stop_probe"
  /\ proc' = [proc EXCEPT ![p] = AfterWaitProbe(@, Probe(@.pid))]
  /\ UNCHANGED <<lid_file, pid_file, nextPid, cmds>>

\* os.kill(pid, signal.SIGKILL), ProcessLookupError passed over; then cleanup
StopKill(p) ==
  /\ proc[p].pc = "stop_kill"
  /\ proc' =
       CASE Probe(proc[p].pid) = "ok" ->
              [proc EXCEPT
                 ![p] = [@ EXCEPT !.pc = "cleanup", !.ret = "stop",
                                  !.sent = Append(@, "KILL")],
                 ![proc[p].pid] = Signalled(@, "KILL")]
         [] Probe(proc[p].pid) = "ESRCH" ->
              [proc EXCEPT ![p] = [@ EXCEPT !.pc = "cleanup", !.ret = "stop"]]
         [] Probe(proc[p].pid) = "EPERM" ->
              [proc EXCEPT ![p] = StopExcept(@)]
  /\ UNCHANGED <<lid_file, pid_file, nextPid, cmds>>

(***************************************************************************)
(* Command.show_status after the check.                                    *)
(***************************************************************************)
\* if self.is_daemon_running(): ... else: print STOPPED, DISABLED
StatusIf(p) ==
  /\ proc[p].pc = "status_if"
  /\ proc' = [proc EXCEPT ![p] =
                IF @.is_running = "True" THEN [@ EXCEPT !.pc = "status_pid"]
                ELSE [@ EXCEPT !.pc = "status_lid", !.out = "STOPPED"]]
  /\ UNCHANGED <<lid_file, pid_file, nextPid, cmds>>

\* pid = int(self.pid_file.read_text().strip()) a second time, outside any try
StatusPid(p) ==
  /\ proc[p].pc = "status_pid"
  /\ proc' = [proc EXCEPT ![p] =
                IF ~pid_file.exists THEN End(@, "crashed", "FileNotFoundError")
                ELSE IF ParsePid(pid_file.text) = ValueError
                  THEN End(@, "crashed", "ValueError")
                  ELSE [@ EXCEPT !.pc = "status_lid", !.out = "RUNNING",
                                 !.pid = ParsePid(pid_file.text)]]
  /\ UNCHANGED <<lid_file, pid_file, nextPid, cmds>>

\* the lid state, or the error reading it, printed after the status
StatusLid(p) ==
  /\ proc[p].pc = "status_lid"
  /\ proc' = [proc EXCEPT ![p] = End(@, "exit", @.out)]
  /\ UNCHANGED <<lid_file, pid_file, nextPid, cmds>>

(***************************************************************************)
(* shell.Command._auto_start_lid_monitor.                                  *)
(***************************************************************************)
\* if not lid_path.exists(): return
AutoLid(p) ==
  /\ proc[p].pc = "auto_lid"
  /\ proc' = [proc EXCEPT ![p] =
                IF lid_file.exists THEN [@ EXCEPT !.pc = "auto_exists"]
                ELSE End(@, "exit", "")]
  /\ UNCHANGED <<lid_file, pid_file, nextPid, cmds>>

\* if pid_file.exists():
AutoExists(p) ==
  /\ proc[p].pc = "auto_exists"
  /\ proc' = [proc EXCEPT ![p].pc = IF pid_file.exists THEN "auto_read" ELSE "auto_spawn"]
  /\ UNCHANGED <<lid_file, pid_file, nextPid, cmds>>

\* pid = int(pid_file.read_text().strip())
AutoRead(p) ==
  /\ proc[p].pc = "auto_read"
  /\ proc' = [proc EXCEPT ![p] =
                IF ~pid_file.exists THEN End(@, "crashed", "FileNotFoundError")
                ELSE IF ParsePid(pid_file.text) = ValueError
                  THEN [@ EXCEPT !.pc = "auto_unlink"]
                  ELSE [@ EXCEPT !.pc = "auto_probe", !.pid = ParsePid(pid_file.text)]]
  /\ UNCHANGED <<lid_file, pid_file, nextPid, cmds>>

\* the launcher going on to the spawn although the probe was answered
AfterAutoProbe_SpawnsAnyway(q, result) ==
  CASE result = "ok" -> [q EXCEPT !.pc = "auto_spawn"]
    [] result = "ESRCH" -> [q EXCEPT !.pc = "auto_unlink"]
    [] result = "EPERM" -> End(q, "crashed", "PermissionError")

\* the launcher after os.kill(pid, 0): return; ProcessLookupError is caught
\* (unlink the stale file); PermissionError is not
AfterAutoProbe(q, result) ==
  CASE result = "ok" -> End(q, "exit", "")
    [] result = "ESRCH" -> [q EXCEPT !.pc = "auto_unlink"]
    [] result = "EPERM" -> End(q, "crashed", "PermissionError")

\* os.kill(pid, 0)
AutoProbe(p) ==
  /\ proc[p].pc = "auto_probe"
  /\ proc' = [proc EXCEPT ![p] = AfterAutoProbe(@, Probe(@.pid))]
  /\ UNCHANGED <<lid_file, pid_file, nextPid, cmds>>

\* pid_file.unlink(), with no check before it
AutoUnlink(p) ==
  /\ proc[p].pc = "auto_unlink"
  /\ IF pid_file.exists
       THEN /\ pid_file' = NoFile
            /\ proc' = [proc EXCEPT ![p].pc = "auto_spawn"]
       ELSE /\ proc' = [proc EXCEPT ![p] = End(@, "crashed", "FileNotFoundError")]
            /\ UNCHANGED pid_file
  /\ UNCHANGED <<lid_file, nextPid, cmds>>

\* subprocess.Popen(["caelestia", "lidmonitor", "--daemon"], ...): a new
\* process running start_daemon, or FileNotFoundError, passed over
AutoSpawn(p) ==
  /\ proc[p].pc = "auto_spawn"
  /\ \/ /\ nextPid <= MaxProcs
        /\ proc' = [proc EXCEPT
                      ![p] = End(@, "exit", "spawned"),
                      ![nextPid] = [NoProc EXCEPT !.cmd = "daemon",
                                                  !.pc = Entry("daemon")]]
        /\ nextPid' = nextPid + 1
     \/ /\ proc' = [proc EXCEPT ![p] = End(@, "exit", "")]
        /\ UNCHANGED nextPid
  /\ UNCHANGED <<lid_file, pid_file, cmds>>

(***************************************************************************)
(* Command.monitor_lid and Command.trigger_lock.                           *)
(***************************************************************************)
\* if not self.lid_state_path.exists(): log, return; else self.running = True,
\* last_state = None and the handlers of SIGTERM and SIGINT are set
MonitorStart(p) ==
  /\ proc[p].pc = "mon_start"
  /\ proc' = [proc EXCEPT ![p] =
                IF lid_file.exists
                  THEN [@ EXCEPT !.pc = "loop", !.running = TRUE, !.last_state = None]
                  ELSE End(@, "exit", "ERROR: Lid state file not found")]
  /\ UNCHANGED <<lid_file, pid_file, nextPid, cmds>>

\* while self.running: the next tick, or finally: self.running = False;
\* self.cleanup().  The process is here while it sleeps at the end of a tick.
MonitorLoop(p) ==
  /\ proc[p].pc = "loop"
  /\ LET q == [proc[p] EXCEPT !.before = None, !.current_state = None,
                              !.attempts = <<>>, !.locked = "none", !.calls = 0]
     IN  proc' = [proc EXCEPT ![p] =
                    IF q.running
                      THEN [q EXCEPT !.pc = "tick", !.before = q.last_state]
                      ELSE [q EXCEPT !.pc = "cleanup", !.ret = "finally",
                                     !.running = FALSE]]
  /\ UNCHANGED <<lid_file, pid_file, nextPid, cmds>>

\* the comparison without "last_state is not None"
ShouldLock_NoneIsAState(last, current) ==
  last # current /\ current = Closed

\* the comparison with the branches for closed and open exchanged
ShouldLock_OnOpen(last, current) ==
  last # None /\ last # current /\ current = Open

\* the comparison without the test for closed
ShouldLock_AnyChange(last, current) ==
  last # None /\ last # current

\* if last_state is not None and last_state != current_state: ...
\*     if current_state == "closed": self.trigger_lock()
ShouldLock(last, current) ==
  last # None /\ last # current /\ current = Closed

\* the tick after current_state = self.get_lid_state() returned: the call of
\* trigger_lock, or last_state = current_state and the sleep
AfterRead(q, current) ==
  IF ShouldLock(q.last_state, current)
    THEN [q EXCEPT !.current_state = current, !.pc = "lock", !.mech = 1,
                   !.calls = @ + 1]
    ELSE [q EXCEPT !.current_state = current, !.last_state = current, !.pc = "loop"]

\* a read error that ends the loop
ReadFailed_StopsLoop(q) ==
  [q EXCEPT !.pc = "loop", !.running = FALSE, !.out = "Error reading lid state"]

\* except Exception: log, sleep; last_state is left alone
ReadFailed(q) == [q EXCEPT !.pc = "loop", !.out = "Error reading lid state"]

\* the top of a tick: get_lid_state raises FileNotFoundError when the file
\* is not there
MonitorTick(p) ==
  /\ proc[p].pc = "tick"
  /\ proc' = [proc EXCEPT ![p] =
                IF lid_file.exists THEN AfterRead(@, get_lid_state[lid_file.text])
                ELSE ReadFailed(@)]
  /\ UNCHANGED <<lid_file, pid_file, nextPid, cmds>>

\* what subprocess.run can do for one mechanism: exit code 0, another exit
\* code, TimeoutExpired, FileNotFoundError, or another error starting the
\* command (PermissionError, any other OSError)
Outcomes == {"zero", "nonzero", "timeout", "notfound", "error"}

\* the last mechanism counting as a lock whatever its exit code
AfterAttempt_LastAlwaysLocks(m, o) ==
  CASE o = "zero" -> "True"
    [] o = "error" -> "False"
    [] OTHER -> IF m = NumMechanisms THEN "True" ELSE "next"

\* trigger_lock after mechanism m ended with outcome o: return True, return
\* False, or go on with the next mechanism.  Only TimeoutExpired and
\* FileNotFoundError are caught per mechanism; any other exception reaches
\* the outer except Exception, after which the function returns False
AfterAttempt(m, o) ==
  CASE o = "zero" -> "True"
    [] o = "error" -> "False"
    [] OTHER -> IF m = NumMechanisms THEN "False" ELSE "next"

\* the last line logged once trigger_lock has returned r: its own on True,
\* that of "if not self.trigger_lock():" in monitor_lid on False
LockLog(r) ==
  IF r = "True" THEN "Lock triggered successfully"
  ELSE "WARNING: Failed to trigger lock - system may be unprotected!"

\* one mechanism of trigger_lock; when it returns the tick ends with
\* last_state = current_state and the sleep
TriggerLock(p) ==
  /\ proc[p].pc = "lock"
  /\ \E o \in Outcomes :
       LET q == proc[p]
           r == AfterAttempt(q.mech, o)
           tried == Append(q.attempts, [m |-> q.mech, o |-> o])
       IN  proc' = [proc EXCEPT ![p] =
                      IF r = "next"
                        THEN [q EXCEPT !.attempts = tried, !.mech = q.mech + 1]
                        ELSE [q EXCEPT !.attempts = tried, !.mech = 0, !.locked = r,
                                       !.out = LockLog(r),
                                       !.last_state = q.current_state, !.pc = "loop"]]
  /\ UNCHANGED <<lid_file, pid_file, nextPid, cmds>>

(***************************************************************************)
(* The system of controllers: users, the session and the launcher issue    *)
(* commands against a lid that stays as it is.                             *)
(***************************************************************************)
Init ==
  /\ InitFiles
  /\ proc = [p \in Pids |-> NoProc]
  /\ nextPid = 1
  /\ cmds = 0

\* the steps of the daemon controller and of the launcher
ControlStep(p) ==
  \/ CleanupExists(p)
  \/ CleanupUnlink(p)
  \/ IsRunningExists(p)
  \/ IsRunningRead(p)
  \/ IsRunningProbe(p)
  \/ StartIf(p)
  \/ Fork(p)
  \/ ChildWritePid(p)
  \/ StopExists(p)
  \/ StopRead(p)
  \/ StopTerm(p)
  \/ StopProbe(p)
  \/ StopKill(p)
  \/ StatusIf(p)
  \/ StatusPid(p)
  \/ StatusLid(p)
  \/ AutoLid(p)
  \/ AutoExists(p)
  \/ AutoRead(p)
  \/ AutoProbe(p)
  \/ AutoUnlink(p)
  \/ AutoSpawn(p)

\* the steps of the monitor loop while the lid does not move
LoopStep(p) ==
  \/ MonitorStart(p)
  \/ MonitorLoop(p)
  \/ MonitorTick(p)

Next ==
  \/ \E k \in Commands : Launch(k)
  \/ \E t \in Pids, sig \in {"TERM", "INT"} : EnvSignal(t, sig)
  \/ \E p \in Pids : ControlStep(p)
  \/ \E p \in Pids : LoopStep(p)

Spec == Init /\ [][Next]_vars

(***************************************************************************)
(* One run of the monitor, in the foreground or as a daemon, while the lid *)
(* moves and signals arrive.  Every step of a process ends (subprocess.run *)
(* has a timeout, the sleeps are finite), so a process that can take a     *)
(* step takes it; the parent of a daemon ends in the step that forks, so   *)
(* one process at a time has steps to take.                                *)
(***************************************************************************)
InitMonitor ==
  /\ InitFiles
  /\ \E k \in {"monitor", "daemon"} :
       proc = [p \in Pids |->
                 IF p = 1 THEN [NoProc EXCEPT !.cmd = k, !.pc = Entry(k)] ELSE NoProc]
  /\ nextPid = 2
  /\ cmds = 1

MonitorStep(p) ==
  \/ CleanupExists(p)
  \/ CleanupUnlink(p)
  \/ IsRunningExists(p)
  \/ IsRunningRead(p)
  \/ IsRunningProbe(p)
  \/ StartIf(p)
  \/ Fork(p)
  \/ ChildWritePid(p)
  \/ MonitorStart(p)
  \/ MonitorLoop(p)
  \/ MonitorTick(p)
  \/ TriggerLock(p)

NextMonitor ==
  \/ \E f \in ({NoFile} \cup {File(t) : t \in LidTexts}) : LidChange(f)
  \/ \E t \in Pids, sig \in {"TERM", "INT"} : EnvSignal(t, sig)
  \/ \E p \in Pids : MonitorStep(p)

SpecMonitor ==
  /\ InitMonitor
  /\ [][NextMonitor]_vars
  /\ WF_vars(\E p \in Pids : MonitorStep(p))

(***************************************************************************)
(* The reader: one foreground run of the monitor over every content the    *)
(* lid-state file can be given, the file changing or going away between    *)
(* ticks.                                                                  *)
(***************************************************************************)
ReaderFiles == {NoFile} \cup {File(t) : t \in ReaderTexts}

InitReader ==
  /\ lid_file \in ReaderFiles
  /\ pid_file \in {NoFile, File(StaleText)}
  /\ proc = [p \in Pids |->
               IF p = 1 THEN [NoProc EXCEPT !.cmd = "monitor", !.pc = Entry("monitor")]
               ELSE NoProc]
  /\ nextPid = 2
  /\ cmds = 1

ReaderStep(p) ==
  \/ MonitorStart(p)
  \/ MonitorLoop(p)
  \/ MonitorTick(p)
  \/ TriggerLock(p)
  \/ CleanupExists(p)
  \/ CleanupUnlink(p)

NextReader ==
  \/ \E f \in ReaderFiles : LidChange(f)
  \/ \E t \in Pids : EnvSignal(t, "INT")
  \/ \E p \in Pids : ReaderStep(p)

SpecReader == InitReader /\ [][NextReader]_vars

(***************************************************************************)
(* Properties.                                                             *)
(***************************************************************************)
\* process p has taken the step, and was not ended by a signal
Stepped(p) == proc'[p] # proc[p] /\ proc'[p].pc # "killed"

\* no process but p has changed: no child, no spawn, no signal delivered
OthersUnchanged(p) == \A r \in Pids \ {p} : proc'[r] = proc[r]

\* C1: whatever the five mechanisms do, trigger_lock runs them in the order
\* 1, 2, 3, 4, 5, each at most once; it returns True at the first mechanism
\* that exits with code zero and runs none after it; it returns False only
\* when all five were run and none exited with code zero.
C1_FallbackChain ==
  \A p \in Pids :
    LET q == proc[p]
        n == Len(q.attempts)
    IN  /\ \A i \in 1 .. n : q.attempts[i].m = i
        /\ \A i \in 1 .. (n - 1) : q.attempts[i].o # "zero"
        /\ q.locked = "True" => n >= 1 /\ q.attempts[n].o = "zero"
        /\ q.locked = "False" =>
             /\ n = NumMechanisms
             /\ \A i \in 1 .. n : q.attempts[i].o # "zero"

\* C2: at the end of a tick whose read succeeded, trigger_lock has been
\* called once if last_state was present, differed from the state read and
\* the state read is closed, and not at all otherwise (last_state absent, or
\* equal to the state read); and last_state is the state read.
C2_TickDispatch ==
  \A p \in Pids :
    LET q == proc[p]
    IN  (q.pc = "loop" /\ q.current_state # None) =>
          /\ q.calls = IF /\ q.before # None
                          /\ q.before # q.current_state
                          /\ q.current_state = Closed
                         THEN 1 ELSE 0
          /\ (q.calls = 1) = (q.locked # "none")
          /\ q.last_state = q.current_state

\* a tick that saw the lid go from open to closed and called trigger_lock once
C2_Witness ==
  \E p \in Pids :
    /\ proc[p].pc = "loop"
    /\ proc[p].before = Open
    /\ proc[p].current_state = Closed
    /\ proc[p].last_state = Closed
    /\ proc[p].calls = 1

\* C3: under every interleaving of start commands, auto-starts and stop
\* commands, at most one daemon process is inside the monitor loop.
C3_SingleDaemon ==
  Cardinality({p \in Pids : proc[p].cmd = "child" /\ InLoop(p)}) <= 1

\* start_daemon is inside is_daemon_running, or at the if that follows it
InStartCheck(p) ==
  /\ proc[p].cmd = "daemon"
  /\ proc[p].pc \in {"idr_exists", "idr_read", "idr_probe", "start_if"}

\* C4: a start_daemon whose check finds the PID file naming a live process
\* forks no child, delivers no signal and leaves the PID file as it is: no
\* step of the check changes a file or another process, the probe of a live
\* process that answers makes is_daemon_running return True, and
\* start_daemon then returns.
C4_StartIsNoOp ==
  [][\A p \in Pids :
       (InStartCheck(p) /\ Stepped(p)) =>
         /\ (proc[p].pc # "start_if" \/ proc[p].is_running = "True") =>
              /\ pid_file' = pid_file
              /\ nextPid' = nextPid
              /\ OthersUnchanged(p)
         /\ (proc[p].pc = "idr_probe" /\ Probe(proc[p].pid) = "ok") =>
              /\ proc'[p].pc = "start_if"
              /\ proc'[p].is_running = "True"
         /\ (proc[p].pc = "start_if" /\ proc[p].is_running = "True") =>
              proc'[p].pc = "exit"]_vars

\* a start_daemon that found a daemon running and returned, the daemon and
\* its PID file still there
C4_Witness ==
  \E p \in Pids, d \in Pids :
    /\ proc[p].cmd = "daemon"
    /\ proc[p].pc = "exit"
    /\ proc[p].out = "already running"
    /\ proc[d].cmd = "child"
    /\ InLoop(d)
    /\ pid_file = File(Str(d))

\* stop_daemon has found the PID file and has not ended
InStop(p) ==
  /\ proc[p].cmd = "stop"
  /\ Alive(p)
  /\ proc[p].pc # "stop_exists"

\* C5: whenever stop_daemon has found the PID file, the PID file does not
\* exist at the moment stop_daemon returns (or is left by an exception),
\* whichever path it took: the process died, had to be killed, did not
\* exist, refused the signal, or the text of the file was not a number.
C5_StopRemovesPidFile ==
  [][\A p \in Pids :
       (InStop(p) /\ proc'[p].pc \in {"exit", "crashed"}) =>
         ~pid_file'.exists]_vars

\* a stop_daemon that found the PID file of a daemon, ended the daemon and
\* has returned
C5_Witness ==
  \E p \in Pids, d \in Pids :
    /\ proc[p].cmd = "stop"
    /\ proc[p].pc = "exit"
    /\ proc[p].out = "stopped"
    /\ proc[d].cmd = "child"
    /\ proc[d].pc \in Ended
    /\ ~pid_file.exists

\* C6: with no lid-state file, a start of the monitor returns without
\* entering the loop and has created no PID file.
C6_NoLidNoPidFile ==
  \A p \in Pids :
    (proc[p].pc = "exit" /\ proc[p].out = "ERROR: Lid state file not found") =>
      ~(pid_file.exists /\ ParsePid(pid_file.text) = p)

\* is_daemon_running is being run by process p
InIsRunning(p) ==
  \/ proc[p].pc \in {"idr_exists", "idr_read", "idr_probe"}
  \/ proc[p].pc \in {"cleanup", "unlink"} /\ proc[p].ret = "idr"

\* process p returns from is_daemon_running in this step
IsRunningReturns(p) ==
  InIsRunning(p) /\ proc'[p].pc \in {"start_if", "status_if"}

\* C9: is_daemon_running returns False and the PID file is gone when the
\* file's text is not a number or names no process; it returns False and
\* touches nothing when there is no file; it returns True and leaves the
\* file alone when the file names a live process (any process that is there,
\* whether the probe is answered or refused).
C9_IsRunning ==
  [][\A p \in Pids :
       (InIsRunning(p) /\ Stepped(p)) =>
         /\ (proc[p].pc = "idr_exists" /\ ~pid_file.exists) =>
              /\ IsRunningReturns(p)
              /\ proc'[p].is_running = "False"
              /\ pid_file' = pid_file
              /\ OthersUnchanged(p)
         /\ (proc[p].pc = "idr_read" /\ pid_file.exists
               /\ ParsePid(pid_file.text) = ValueError) =>
              proc'[p].pc = "cleanup" /\ proc'[p].ret = "idr"
         /\ (proc[p].pc = "idr_probe" /\ Probe(proc[p].pid) = "ESRCH") =>
              proc'[p].pc = "cleanup" /\ proc'[p].ret = "idr"
         /\ (proc[p].pc \in {"cleanup", "unlink"} /\ IsRunningReturns(p)) =>
              /\ proc'[p].is_running = "False"
              /\ ~pid_file'.exists
         /\ (proc[p].pc = "idr_probe" /\ Probe(proc[p].pid) # "ESRCH") =>
              /\ IsRunningReturns(p)
              /\ proc'[p].is_running = "True"
              /\ pid_file' = pid_file
         /\ (IsRunningReturns(p) /\ proc'[p].is_running = "True") =>
              proc[p].pc = "idr_probe" /\ Probe(proc[p].pid) # "ESRCH"]_vars

\* C10: a stop_daemon that finds no PID file returns at once: it delivers no
\* signal, ends with no error and changes nothing.
C10_StopWithoutPidFile ==
  [][\A p \in Pids :
       (proc[p].cmd = "stop" /\ proc[p].pc = "stop_exists" /\ ~pid_file.exists
          /\ Stepped(p)) =>
         /\ proc'[p].pc = "exit"
         /\ proc'[p].out = "No lid monitor daemon found"
         /\ pid_file' = pid_file
         /\ lid_file' = lid_file
         /\ nextPid' = nextPid
         /\ OthersUnchanged(p)]_vars

\* a stop_daemon that found no PID file and returned
C10_Witness ==
  \E p \in Pids :
    /\ proc[p].cmd = "stop"
    /\ proc[p].pc = "exit"
    /\ proc[p].out = "No lid monitor daemon found"

\* C7: once SIGTERM or SIGINT has reached a process inside the monitor loop,
\* at whatever point of the tick, its running flag is false; the process
\* then eventually leaves the loop and ends; and whenever monitor_lid
\* returns after the loop was entered, by whatever path, the PID file does
\* not exist.
C7_SignalShutdown ==
  /\ [](\A p \in Pids : proc[p].shutdown => ~proc[p].running)
  /\ [][\A p \in Pids :
          (HasHandler(proc[p]) /\ proc'[p].pc = "exit") => ~pid_file'.exists]_vars
  /\ \A p \in Pids :
       (proc[p].shutdown /\ InLoop(p)) ~> (proc[p].pc \in Ended)

\* a daemon that was signalled in its loop has returned from monitor_lid and
\* its PID file is gone
C7_Witness ==
  \E p \in Pids :
    /\ proc[p].cmd = "child"
    /\ proc[p].pc = "exit"
    /\ proc[p].out = "Received shutdown signal"
    /\ ~pid_file.exists

\* the lid-state file says closed
LidClosed == lid_file = File(ClosedText)

\* C8: if the loop is running with no signal received, the last observed
\* state is open and the lid file says closed and keeps saying so, then
\* trigger_lock is eventually called (every step of the loop being taken
\* in the end).
C8_CloseLeadsToLock ==
  \A p \in Pids :
    (proc[p].pc \in {"loop", "tick"} /\ proc[p].running
       /\ proc[p].last_state = Open /\ LidClosed)
    ~> (proc[p].pc = "lock" \/ ~LidClosed \/ ~proc[p].running \/ ~Alive(p))

\* trigger_lock has been called on a tick that read closed after open
C8_Witness ==
  \E p \in Pids :
    /\ proc[p].pc = "lock"
    /\ proc[p].mech = 1
    /\ proc[p].attempts = <<>>
    /\ proc[p].last_state = Open
    /\ proc[p].current_state = Closed
    /\ LidClosed

\* trigger_lock has returned and every one of the five mechanisms was tried
\* without an exit code of zero
AllFailed(q) ==
  /\ q.pc = "loop"
  /\ q.locked # "none"
  /\ Len(q.attempts) = NumMechanisms
  /\ \A i \in 1 .. NumMechanisms : q.attempts[i].o # "zero"

\* C11: when closed is read after another state and all five mechanisms
\* fail or time out, trigger_lock returns False and the warning is the last
\* line logged (until a signal's line follows it), last_state is closed, the
\* running flag is still set unless a signal cleared it, and the step the
\* loop takes next is the next tick.
C11_AllFailContinues ==
  /\ [](\A p \in Pids :
          AllFailed(proc[p]) =>
            /\ proc[p].locked = "False"
            /\ proc[p].last_state = Closed
            /\ proc[p].shutdown \/ proc[p].out = LockLog("False")
            /\ proc[p].shutdown \/ proc[p].running)
  /\ [][\A p \in Pids :
          (AllFailed(proc[p]) /\ Stepped(p) /\ ~proc'[p].shutdown) =>
            proc'[p].pc = "tick" /\ proc'[p].before = Closed]_vars

\* the tick after a trigger_lock whose five mechanisms all failed
C11_Witness ==
  \E p \in Pids :
    /\ proc[p].pc = "loop"
    /\ proc[p].running
    /\ proc[p].locked = "False"
    /\ Len(proc[p].attempts) = NumMechanisms
    /\ proc[p].attempts[NumMechanisms].o = "timeout"
    /\ proc[p].out = LockLog("False")

\* process p is running _auto_start_lid_monitor
InAutoStart(p) == proc[p].cmd = "launcher" /\ Alive(p)

\* the step of process p starts a new process
Spawns(p) == nextPid' # nextPid /\ proc'[nextPid].cmd = "daemon"

\* C12: the launcher spawns a daemon start only from its Popen, which it
\* reaches only with the lid path there and the PID file found absent or
\* stale; with the lid path missing it returns having done nothing; when
\* the probe finds the process of the PID file alive it ends having done
\* nothing; a file that is not a number or names no process is deleted
\* before the spawn; and a Popen that finds no binary is passed over in
\* silence.
C12_AutoStart ==
  [][\A p \in Pids :
       (InAutoStart(p) /\ Stepped(p)) =>
         /\ proc[p].pc # "auto_spawn" =>
              nextPid' = nextPid /\ OthersUnchanged(p)
         /\ proc[p].pc # "auto_unlink" => pid_file' = pid_file
         /\ (proc[p].pc = "auto_lid" /\ ~lid_file.exists) =>
              proc'[p].pc = "exit"
         /\ (proc[p].pc = "auto_probe" /\ Probe(proc[p].pid) # "ESRCH") =>
              proc'[p].pc \in Ended
         /\ proc'[p].pc = "auto_spawn" =>
              /\ lid_file.exists
              /\ ~pid_file'.exists
              /\ \/ proc[p].pc = "auto_exists" /\ ~pid_file.exists
                 \/ proc[p].pc = "auto_unlink" /\ pid_file.exists
         /\ proc'[p].pc = "auto_unlink" =>
              \/ proc[p].pc = "auto_read" /\ ParsePid(pid_file.text) = ValueError
              \/ proc[p].pc = "auto_probe" /\ Probe(proc[p].pid) = "ESRCH"
         /\ proc[p].pc = "auto_spawn" =>
              /\ proc'[p].pc = "exit"
              /\ Spawns(p) \/ (nextPid' = nextPid /\ OthersUnchanged(p))]_vars

\* the launcher has deleted a stale PID file and spawned a daemon start
C12_Witness ==
  \E p \in Pids, d \in Pids :
    /\ proc[p].cmd = "launcher"
    /\ proc[p].pc = "exit"
    /\ proc[p].out = "spawned"
    /\ proc[d].cmd = "daemon"
    /\ proc[d].pc = "idr_exists"
    /\ ~pid_file.exists
    /\ cmds = 1

Least(S) == CHOOSE i \in S : \A j \in S : i <= j

Greatest(S) == CHOOSE i \in S : \A j \in S : i >= j

\* where the first "state:" of text t begins, and the bounds of its line
KeyAt(t) ==
  Least({k \in 1 .. (Len(t) - Len(StateKey) + 1) :
           SubSeq(t, k, k + Len(StateKey) - 1) = StateKey})

LineStart(t) ==
  Greatest({0} \cup {j \in 1 .. KeyAt(t) : t[j] = "\n"}) + 1

LineEnd(t) ==
  Least({Len(t) + 1} \cup {j \in KeyAt(t) .. Len(t) : t[j] = "\n"}) - 1

\* the first colon of that line, and the colon after it (or the line's end)
FirstColon(t) == Least({j \in LineStart(t) .. LineEnd(t) : t[j] = ":"})

NextColon(t) ==
  Least({LineEnd(t) + 1} \cup {j \in FirstColon(t) + 1 .. LineEnd(t) : t[j] = ":"})

\* for each content: the trimmed text after the first colon of the first line
\* with "state:", to the end of that line; unknown without such a line
AfterFirstColon ==
  [t \in ReaderTexts |->
     IF Contains(t, StateKey)
       THEN Strip(SubSeq(t, FirstColon(t) + 1, LineEnd(t)))
       ELSE Unknown]

\* the same, up to the colon that follows or else the end of the line
BetweenColons ==
  [t \in ReaderTexts |->
     IF Contains(t, StateKey)
       THEN Strip(SubSeq(t, FirstColon(t) + 1, NextColon(t) - 1))
       ELSE Unknown]

\* process p has done the read of a tick in this step
ReadDone(p) == proc[p].pc = "tick" /\ Stepped(p) /\ proc'[p].pc # "tick"

\* the read of a missing file fails: the tick ends in the except clause
NotFound(p) ==
  /\ proc'[p].pc = "loop"
  /\ proc'[p].out = "Error reading lid state"
  /\ proc'[p].current_state = None

\* C13 as stated: for every content of the bounded set, get_lid_state returns
\* the trimmed text that follows the first colon of the first line containing
\* "state:", unknown when no line contains it, and fails when the path does
\* not exist.
C13_Original ==
  [][\A p \in Pids :
       ReadDone(p) =>
         IF lid_file.exists
           THEN proc'[p].current_state = AfterFirstColon[lid_file.text]
           ELSE NotFound(p)]_vars

\* C13 amended: for every content of the bounded set, get_lid_state returns
\* the trimmed text between the first colon of the first line containing
\* "state:" and the next colon of that line (the end of the line when there
\* is none), unknown when no line contains "state:", and fails when the path
\* does not exist.
C13_Reader ==
  [][\A p \in Pids :
       ReadDone(p) =>
         IF lid_file.exists
           THEN proc'[p].current_state = BetweenColons[lid_file.text]
           ELSE NotFound(p)]_vars

\* a tick has read open from a file whose state line has a second colon,
\* after a first line without a state
C13_Witness ==
  \E p \in Pids :
    /\ proc[p].pc = "loop"
    /\ proc[p].current_state = Open
    /\ lid_file = File(<<"L", "I", "D", "\n">> \o StateKey \o Open \o <<":", "x", "\n">>)

\* C14: while a daemon started through start_daemon is inside its loop and
\* no signal of a stop has reached it, the PID file exists and holds the
\* daemon's pid, whatever the other commands of the program do.
C14_DaemonPidFile ==
  \A p \in Pids :
    (proc[p].cmd = "child" /\ InLoop(p) /\ ~proc[p].shutdown) =>
      pid_file.exists /\ ParsePid(pid_file.text) = p

\* C15: start_daemon, stop_daemon and show_status never end with an
\* unhandled error, whatever the PID file holds and whoever deletes it
\* between their check and their read or unlink.
C15_NoUnhandledError ==
  \A p \in Pids :
    proc[p].cmd \in {"daemon", "stop", "status"} => proc[p].pc # "crashed"

\* the steps stop_daemon can still take from where process q is, at most
StopRank(q) ==
  CASE q.pc = "stop_exists" -> ProbeLimit + 6
    [] q.pc = "stop_read" -> ProbeLimit + 5
    [] q.pc = "stop_term" -> ProbeLimit + 4
    [] q.pc = "stop_probe" -> ProbeLimit + 3 - q.tries
    [] q.pc = "stop_kill" -> 3
    [] q.pc = "cleanup" -> 2
    [] q.pc = "unlink" -> 1
    [] OTHER -> 0

\* C16: in stop_daemon with a PID file naming a process, SIGTERM is the
\* first signal sent and the probes come only after it; the process is
\* probed at most 10 times; the SIGKILL call is reached exactly when the
\* tenth probe, like the nine before it, found the process alive, never
\* after a probe that found it gone; and stop_daemon ends, every step taking
\* it nearer to its end.
C16_StopSignals ==
  /\ [](\A p \in Pids :
          proc[p].cmd = "stop" =>
            /\ proc[p].tries <= ProbeLimit
            /\ proc[p].pc = "stop_probe" =>
                 proc[p].tries < ProbeLimit /\ proc[p].sent = <<"TERM">>
            /\ proc[p].pc = "stop_kill" =>
                 proc[p].tries = ProbeLimit /\ proc[p].sent = <<"TERM">>
            /\ proc[p].sent \in {<<>>, <<"TERM">>, <<"TERM", "KILL">>}
            /\ proc[p].sent = <<"TERM", "KILL">> => proc[p].tries = ProbeLimit)
  /\ [][\A p \in Pids :
          (proc[p].cmd = "stop" /\ Stepped(p)) =>
            /\ StopRank(proc'[p]) < StopRank(proc[p])
            /\ proc[p].pc = "stop_probe" =>
                 /\ Probe(proc[p].pid) = "ESRCH" => proc'[p].pc = "cleanup"
                 /\ proc'[p].pc = "stop_kill" <=>
                      (Probe(proc[p].pid) = "ok" /\ proc[p].tries = ProbeLimit - 1)
            /\ proc'[p].pc = "stop_kill" => proc[p].pc = "stop_probe"
            /\ proc[p].pc \notin {"stop_term", "stop_kill"} => OthersUnchanged(p)]_vars

\* a stop_daemon that sent SIGTERM, found the process alive ten times and
\* sent SIGKILL
C16_Witness ==
  \E p \in Pids :
    /\ proc[p].cmd = "stop"
    /\ proc[p].pc = "cleanup"
    /\ proc[p].tries = ProbeLimit
    /\ proc[p].sent = <<"TERM", "KILL">>
    /\ proc[proc[p].pid].pc = "killed"

\* the tick of process q has just ended in the except clause
JustFailed(q) ==
  /\ q.pc = "loop"
  /\ q.current_state = None
  /\ q.out = "Error reading lid state"

\* C17: a read of the lid state that fails during a tick (the lid path
\* having gone after the loop started) ends the tick in the except clause
\* with the running flag and last_state as they were and trigger_lock not
\* called; the loop is then still running, unless a signal cleared the flag,
\* and its next step is the next tick, which reads again.
C17_ReadFailureNotFatal ==
  /\ [][\A p \in Pids :
          (ReadDone(p) /\ ~lid_file.exists) =>
            /\ JustFailed(proc'[p])
            /\ proc'[p].running = proc[p].running
            /\ proc'[p].last_state = proc[p].last_state
            /\ proc'[p].calls = 0
            /\ proc'[p].locked = "none"]_vars
  /\ [](\A p \in Pids :
          JustFailed(proc[p]) => proc[p].shutdown \/ proc[p].running)
  /\ [][\A p \in Pids :
          (JustFailed(proc[p]) /\ Stepped(p) /\ ~proc'[p].shutdown) =>
            /\ proc'[p].pc = "tick"
            /\ proc'[p].running
            /\ proc'[p].before = proc[p].last_state]_vars

\* a tick failed on a missing lid file after open had been observed, and the
\* loop is still running
C17_Witness ==
  \E p \in Pids :
    /\ JustFailed(proc[p])
    /\ proc[p].running
    /\ proc[p].last_state = Open
    /\ ~lid_file.exists

\* C18 as stated: on every tick where trigger_lock is called, the state
\* observed before is open and the state just read is closed.
C18_Original ==
  \A p \in Pids :
    proc[p].pc = "lock" =>
      proc[p].before = Open /\ proc[p].current_state = Closed

\* C18 amended: on every tick where trigger_lock is called, the state just
\* read is closed and the state observed before is a state that was read
\* (not the None of the start) and is not closed: open, unknown or any other
\* text.
C18_LockOnlyOnClose ==
  \A p \in Pids :
    (proc[p].pc = "lock" \/ proc[p].calls > 0) =>
      /\ proc[p].current_state = Closed
      /\ proc[p].before # None
      /\ proc[p].before # Closed

\* trigger_lock is being called on a tick that read closed after unknown
C18_Witness ==
  \E p \in Pids :
    /\ proc[p].pc = "lock"
    /\ proc[p].before = Unknown
    /\ proc[p].current_state = Closed

====
